---- MODULE Spec2Model ----
(***************************************************************************)
(* Model of the Google Meet MCP server (gmeet/meet_server.py): the five    *)
(* tools create-meeting, list-meetings, get-meeting-details,               *)
(* update-meeting and delete-meeting, each a sequence of calls on the      *)
(* calendar backend inside one blanket try/except.                         *)
(*                                                                         *)
(* Python values.  A dict is a function whose domain is its set of keys.   *)
(* A str is a string; None in a position that holds a str is the marker    *)
(* None, None in a position that holds a dict is NoneDict, and None in a   *)
(* position that holds a list is NoneList.  A keyword argument the caller  *)
(* omits is a key missing from the call record; Param binds the declared   *)
(* default.                                                                *)
(***************************************************************************)
EXTENDS Integers, Sequences, FiniteSets, TLC

VARIABLES
    pc,        \* position of the invocation: "idle", "service", a backend step, "returned", "raised"
    tool,      \* name of the tool invoked
    call,      \* keyword arguments the caller supplied
    service,   \* outcome of get_calendar_service(): "none", "ok" or "failed"
    calls,     \* backend requests issued by the invocation, in order, with their outcome
    event,     \* update-meeting's local variable `event` (the fetched resource)
    returned,  \* <<value>> once the tool has returned value, else <<>>
    errors,    \* the ToolErrors raised by the invocation
    store,     \* the backend's copy of one event (concurrent specification)
    version,   \* number of writes the backend applied to store
    inv        \* the concurrent update-meeting invocations, by invocation id

vars == <<pc, tool, call, service, calls, event, returned, errors, store, version, inv>>

(***************************** bounds ***************************************)
MaxEntryPoints == 2
MaxItems == 4
MaxAttendees == 2
Invocations == 2

(************************** Python values ***********************************)
None == "<None>"
NoneDict == [None |-> TRUE]
NoneList == <<None>>
EmptyDict == [k \in {} |-> TRUE]

\* bool(s) for a str-or-None
Truthy(s) == s /= None /\ s /= ""
\* bool(l) for a list-or-None
TruthyList(l) == l /= NoneList /\ l /= <<>>
\* d.get(k) where the value is a str
Get(d, k) == IF k \in DOMAIN d THEN d[k] ELSE None
\* d.get(k) where the value is a dict
GetDict(d, k) == IF k \in DOMAIN d THEN d[k] ELSE NoneDict
\* d.get(k, default)
GetOr(d, k, default) == IF k \in DOMAIN d THEN d[k] ELSE default
\* d[k] = v
SetItem(d, k, v) == [j \in DOMAIN d \cup {k} |-> IF j = k THEN v ELSE d[j]]
\* binding of a keyword parameter with a declared default
Param(c, k, default) == IF k \in DOMAIN c THEN c[k] ELSE default

SeqsUpTo(S, n) == UNION {[1..m -> S] : m \in 0..n}

DEFAULT_CALENDAR_ID == "primary"
DefaultMaxResults == 20
ListWindowDays == 7

\* datetime.now(timezone.utc).isoformat(), for the one clock reading of the model
rfc3339_now == "now"
\* (datetime.now(timezone.utc) + timedelta(days=days)).isoformat()
rfc3339_in(days) == IF days = 0 THEN "now" ELSE IF days = 7 THEN "now+7d" ELSE "now+Nd"

(********************** create-meeting: payload *****************************)
\* [{"email": email} for email in attendees]
attendee_entries(attendees) == [i \in 1..Len(attendees) |-> [email |-> attendees[i]]]

\* variant: the test is `description is not None`
create_with_description_not_none(body, description) ==
    IF description /= None THEN SetItem(body, "description", description) ELSE body

\* if description: event_body["description"] = description
create_with_description(body, description) ==
    IF Truthy(description) THEN SetItem(body, "description", description) ELSE body

\* if attendees: event_body["attendees"] = [...]
create_with_attendees(body, attendees) ==
    IF TruthyList(attendees)
    THEN SetItem(body, "attendees", attendee_entries(attendees))
    ELSE body

\* the event_body create_meeting passes to insert; requestId is str(uuid.uuid4())
create_event_body(summary, start_iso, end_iso, description, attendees, timezone_str, requestId) ==
    LET b0 == [summary |-> summary,
               start |-> [dateTime |-> start_iso, timeZone |-> timezone_str],
               end |-> [dateTime |-> end_iso, timeZone |-> timezone_str]]
        b1 == create_with_description(b0, description)
        b2 == create_with_attendees(b1, attendees)
    IN  SetItem(b2, "conferenceData",
                [createRequest |->
                    [requestId |-> requestId,
                     conferenceSolutionKey |-> [type |-> "hangoutsMeet"]]])

(********************** conferencing link extraction ************************)
\* create_meeting's loop over conf.get("entryPoints", []): meet_link stays None
\* unless a "video" entry is met, and the loop breaks at the first one
RECURSIVE create_scan(_, _)
create_scan(eps, i) ==
    IF i > Len(eps) THEN None
    ELSE IF Get(eps[i], "entryPointType") = "video" THEN Get(eps[i], "uri")
    ELSE create_scan(eps, i + 1)

create_meet_link(created_event) ==
    LET conf == GetOr(created_event, "conferenceData", EmptyDict)
    IN  create_scan(GetOr(conf, "entryPoints", <<>>), 1)

\* the dict create_meeting returns
create_result(created_event) ==
    [eventId |-> Get(created_event, "id"),
     htmlLink |-> Get(created_event, "htmlLink"),
     hangoutLink |-> Get(created_event, "hangoutLink"),
     meetLink |-> create_meet_link(created_event),
     summary |-> Get(created_event, "summary"),
     start |-> GetDict(created_event, "start"),
     end |-> GetDict(created_event, "end")]

\* variant: the legacy field is looked at before the entry points
RECURSIVE extract_scan_legacy_first(_, _, _)
extract_scan_legacy_first(ev, eps, i) ==
    IF "hangoutLink" \in DOMAIN ev THEN ev.hangoutLink
    ELSE IF i > Len(eps) THEN None
    ELSE IF Get(eps[i], "entryPointType") = "video" THEN Get(eps[i], "uri")
    ELSE extract_scan_legacy_first(ev, eps, i + 1)

\* list_meetings.extract_meet_link: returns from inside the loop at the first
\* "video" entry, and falls through to event.get("hangoutLink")
RECURSIVE extract_scan(_, _, _)
extract_scan(ev, eps, i) ==
    IF i > Len(eps) THEN Get(ev, "hangoutLink")
    ELSE IF Get(eps[i], "entryPointType") = "video" THEN Get(eps[i], "uri")
    ELSE extract_scan(ev, eps, i + 1)

extract_meet_link(ev) ==
    LET conf == GetOr(ev, "conferenceData", EmptyDict)
    IN  extract_scan(ev, GetOr(conf, "entryPoints", <<>>), 1)

(********************** list-meetings: filter and projection ****************)
\* the dict appended to results for one event
list_projection(ev, meet_link) ==
    [eventId |-> Get(ev, "id"),
     summary |-> Get(ev, "summary"),
     start |-> GetDict(ev, "start"),
     end |-> GetDict(ev, "end"),
     meetLink |-> meet_link,
     htmlLink |-> Get(ev, "htmlLink")]

\* variant: the test is `meet_link is None`
list_skips_if_none(only_with_meet_link, meet_link) ==
    only_with_meet_link /\ meet_link = None

\* if only_with_meet_link and not meet_link: continue
list_skips(only_with_meet_link, meet_link) ==
    only_with_meet_link /\ ~Truthy(meet_link)

\* the loop `for ev in events`, from index i on
RECURSIVE list_results(_, _, _)
list_results(events, i, only_with_meet_link) ==
    IF i > Len(events) THEN <<>>
    ELSE LET meet_link == extract_meet_link(events[i])
             rest == list_results(events, i + 1, only_with_meet_link)
         IN  IF list_skips(only_with_meet_link, meet_link)
             THEN rest
             ELSE <<list_projection(events[i], meet_link)>> \o rest

(********************** update-meeting: merge *******************************)
\* if summary is not None: event["summary"] = summary   (same for description)
update_field(ev, key, value) ==
    IF value /= None THEN SetItem(ev, key, value) ELSE ev

\* variant: the side is rebuilt from the arguments instead of being updated in place
update_side_rebuilt(ev, side, iso, timezone_str) ==
    IF iso /= None
    THEN SetItem(ev, side,
                 IF Truthy(timezone_str)
                 THEN [dateTime |-> iso, timeZone |-> timezone_str]
                 ELSE [dateTime |-> iso])
    ELSE ev

\* if start_iso is not None: ... (side is "start" or "end")
update_side(ev, side, iso, timezone_str) ==
    IF iso /= None
    THEN LET s0 == IF side \in DOMAIN ev THEN ev[side] ELSE EmptyDict
             s1 == SetItem(s0, "dateTime", iso)
             s2 == IF Truthy(timezone_str) THEN SetItem(s1, "timeZone", timezone_str) ELSE s1
         IN  SetItem(ev, side, s2)
    ELSE ev

\* variant: the backfill without its `"timeZone" not in` test
update_backfill_always(ev, side, timezone_str) ==
    IF Truthy(timezone_str) /\ side \in DOMAIN ev
    THEN SetItem(ev, side, SetItem(ev[side], "timeZone", timezone_str))
    ELSE ev

\* if timezone_str and "start" in event and "timeZone" not in event["start"]: ...
update_backfill(ev, side, timezone_str) ==
    IF Truthy(timezone_str) /\ side \in DOMAIN ev /\ "timeZone" \notin DOMAIN ev[side]
    THEN SetItem(ev, side, SetItem(ev[side], "timeZone", timezone_str))
    ELSE ev

\* the body update_meeting passes to update, from the fetched event
update_body(ev, summary, description, start_iso, end_iso, timezone_str) ==
    LET e1 == update_field(ev, "summary", summary)
        e2 == update_field(e1, "description", description)
        e3 == update_side(e2, "start", start_iso, timezone_str)
        e4 == update_side(e3, "end", end_iso, timezone_str)
        e5 == update_backfill(e4, "start", timezone_str)
    IN  update_backfill(e5, "end", timezone_str)

(********************** the backend's resources *****************************)
\* {**a, **b}
Merge(a, b) == [k \in DOMAIN a \cup DOMAIN b |-> IF k \in DOMAIN b THEN b[k] ELSE a[k]]

VideoA == [entryPointType |-> "video", uri |-> "https://meet.google.com/aaa"]
VideoB == [entryPointType |-> "video", uri |-> "https://meet.google.com/bbb"]
VideoNoUri == [entryPointType |-> "video"]
Phone == [entryPointType |-> "phone", uri |-> "tel:+1-555"]
Untyped == [uri |-> "https://example.com/more"]
EntryKinds == {VideoA, VideoB, VideoNoUri, Phone, Untyped}

LegacyLink == "https://meet.google.com/legacy"

\* conferenceData as the backend sends it; NoneDict stands for "no such key"
ConfChoices ==
    {NoneDict, EmptyDict} \cup {[entryPoints |-> s] : s \in SeqsUpTo(EntryKinds, MaxEntryPoints)}
\* hangoutLink as the backend sends it; None stands for "no such key"
HangoutChoices == {None, "", LegacyLink}

LinkFields(c, h) ==
    LET a == IF h = None THEN EmptyDict ELSE [hangoutLink |-> h]
    IN  IF c = NoneDict THEN a ELSE SetItem(a, "conferenceData", c)

FullRest ==
    [id |-> "evt-0", htmlLink |-> "https://calendar/evt-0", summary |-> "Standup",
     start |-> [dateTime |-> "T1", timeZone |-> "UTC"],
     end |-> [dateTime |-> "T2", timeZone |-> "UTC"]]

\* event resources of every conferencing shape, with and without the other fields
Events ==
    {Merge(r, LinkFields(c, h)) : r \in {FullRest, EmptyDict}, c \in ConfChoices, h \in HangoutChoices}

\* a few event resources, for responses of several items
ListedEvents ==
    {Merge(FullRest, LinkFields(c, h)) :
        c \in {NoneDict, [entryPoints |-> <<Phone, VideoA>>]},
        h \in HangoutChoices}

ItemIds == <<"evt-1", "evt-2", "evt-3", "evt-4", "evt-5", "evt-6">>
\* the backend gives every item its own id
WithIds(items) == [i \in 1..Len(items) |-> SetItem(items[i], "id", ItemIds[i])]

\* the "items" of a list response of at most n items
ListItems(n) ==
    {s \in {<<e>> : e \in Events} \cup {WithIds(t) : t \in SeqsUpTo(ListedEvents, MaxItems)} :
        Len(s) <= n}

\* what events().list(...).execute() may answer: a page of items, or no "items" key
ListResponses(n) == {EmptyDict} \cup {[items |-> s] : s \in ListItems(n)}

SideChoices ==
    {NoneDict,
     [date |-> "2025-11-21"],
     [dateTime |-> "T1"],
     [dateTime |-> "T1", timeZone |-> "Asia/Kolkata"],
     [dateTime |-> "T1", timeZone |-> "UTC", date |-> "2025-11-21"]}

StoredRest ==
    [id |-> "evt-0", status |-> "confirmed", hangoutLink |-> LegacyLink,
     attendees |-> <<[email |-> "a@x.org"], [email |-> "b@x.org"]>>,
     conferenceData |-> [entryPoints |-> <<VideoA>>, conferenceId |-> "aaa"]]

OptField(d, k, v, absent) == IF v = absent THEN d ELSE SetItem(d, k, v)

\* what events().get(...).execute() may answer
FetchedEvents ==
    {OptField(OptField(OptField(OptField(StoredRest, "summary", s, None),
                                "description", d, None), "start", st, NoneDict),
              "end", en, NoneDict) :
        s \in {None, "Standup"}, d \in {None, "Agenda"}, st \in SideChoices, en \in SideChoices}

\* what insert answers for a body: the body's fields, an id, and the conferencing
\* fields the backend decided on
InsertResponses(body) ==
    {Merge(Merge([k \in DOMAIN body \ {"conferenceData"} |-> body[k]],
                 [id |-> "evt-0", htmlLink |-> "https://calendar/evt-0"]),
           LinkFields(c, h)) : c \in ConfChoices, h \in HangoutChoices}

RequestIds == {"uuid-1", "uuid-2"}
AuthCauses == {"RefreshError"}
BackendCauses == {"HttpError 404", "timed out"}

(********************** the callers' arguments ******************************)
Emails == {"a@x.org", "b@x.org"}
Tools == {"create-meeting", "list-meetings", "get-meeting-details", "update-meeting", "delete-meeting"}

\* every way to supply or omit keyword k, with the values vs
WithArg(cs, k, vs) == cs \cup {SetItem(c, k, v) : c \in cs, v \in vs}

CreateCalls ==
    LET c0 == {[summary |-> s, start_iso |-> "T1", end_iso |-> "T2"] : s \in {"Standup", ""}}
        c1 == WithArg(c0, "description", {None, "", "Agenda"})
        c2 == WithArg(c1, "attendees", SeqsUpTo(Emails, MaxAttendees))
    IN  WithArg(c2, "timezone_str", {"Asia/Kolkata"})

ListCalls ==
    LET c0 == {EmptyDict, [time_min_iso |-> "T0", time_max_iso |-> "T9", max_results |-> 1],
               [time_min_iso |-> ""]}
    IN  WithArg(c0, "only_with_meet_link", {TRUE, FALSE})

IdCalls == {[event_id |-> id] : id \in {"evt-0", "evt-9"}}

UpdateCalls ==
    LET c0 == {[event_id |-> "evt-0"]}
        c1 == WithArg(c0, "summary", {"Retro", ""})
        c2 == WithArg(c1, "description", {"Notes"})
        c3 == WithArg(c2, "start_iso", {"T3"})
        c4 == WithArg(c3, "end_iso", {"T4"})
    IN  WithArg(c4, "timezone_str", {None, "", "Asia/Tokyo"})

CallsOf(t) ==
    CASE t = "create-meeting" -> CreateCalls
      [] t = "list-meetings" -> ListCalls
      [] t = "update-meeting" -> UpdateCalls
      [] OTHER -> IdCalls

(********************** one invocation at a time ****************************)
\* the message of the ToolError each tool's except clause raises
error_message(t, c, cause) ==
    CASE t = "create-meeting" -> <<"Failed to create meeting: ", cause>>
      [] t = "list-meetings" -> <<"Failed to list meetings: ", cause>>
      [] t = "get-meeting-details" -> <<"Failed to get meeting details for ", c.event_id, ": ", cause>>
      [] t = "update-meeting" -> <<"Failed to update meeting ", c.event_id, ": ", cause>>
      [] t = "delete-meeting" -> <<"Failed to delete meeting ", c.event_id, ": ", cause>>

\* the first backend step of each tool, after get_calendar_service()
first_step(t) ==
    CASE t = "create-meeting" -> "insert"
      [] t = "list-meetings" -> "list"
      [] t = "get-meeting-details" -> "get"
      [] t = "update-meeting" -> "update_get"
      [] t = "delete-meeting" -> "delete"

\* a request that succeeded with a response, one that succeeded with none, one that failed
Answered(req, resp) == SetItem(SetItem(req, "ok", TRUE), "response", resp)
Done(req) == SetItem(req, "ok", TRUE)
Failed(req) == SetItem(req, "ok", FALSE)

\* except Exception as e: raise ToolError(...)
Raise(cause) ==
    /\ pc' = "raised"
    /\ errors' = Append(errors, error_message(tool, call, cause))
    /\ UNCHANGED returned

\* return value
Return(value) ==
    /\ pc' = "returned"
    /\ returned' = <<value>>
    /\ UNCHANGED errors

Sequential == UNCHANGED <<store, version, inv>>

\* the concurrent update-meeting invocations and what each holds before it is called
InvIds == 1..Invocations
IdleInvocation ==
    [pc |-> "idle", call |-> EmptyDict, event |-> EmptyDict, calls |-> <<>>,
     returned |-> <<>>, errors |-> <<>>]

Init ==
    /\ pc = "idle"
    /\ tool = "none"
    /\ call = EmptyDict
    /\ service = "none"
    /\ calls = <<>>
    /\ event = EmptyDict
    /\ returned = <<>>
    /\ errors = <<>>
    /\ store = Merge(StoredRest, [summary |-> "Standup", description |-> "Agenda",
                                  start |-> [dateTime |-> "T1", timeZone |-> "UTC"],
                                  end |-> [dateTime |-> "T2", timeZone |-> "UTC"]])
    /\ version = 0
    /\ inv = [i \in InvIds |-> IdleInvocation]

\* the framework calls a tool with the caller's keyword arguments
Invoke ==
    /\ pc = "idle"
    /\ \E t \in Tools : \E c \in CallsOf(t) :
        /\ tool' = t
        /\ call' = c
    /\ pc' = "service"
    /\ UNCHANGED <<service, calls, event, returned, errors>>
    /\ Sequential

\* service = get_calendar_service()
GetServiceOk ==
    /\ pc = "service"
    /\ pc' = first_step(tool)
    /\ service' = "ok"
    /\ UNCHANGED <<tool, call, calls, event, returned, errors>>
    /\ Sequential

GetServiceFail ==
    /\ pc = "service"
    /\ \E cause \in AuthCauses : Raise(cause)
    /\ service' = "failed"
    /\ UNCHANGED <<tool, call, calls, event>>
    /\ Sequential

(* create-meeting *)
create_request(c, requestId) ==
    [op |-> "insert",
     calendarId |-> DEFAULT_CALENDAR_ID,
     body |-> create_event_body(c.summary, c.start_iso, c.end_iso,
                                Param(c, "description", None),
                                Param(c, "attendees", NoneList),
                                Param(c, "timezone_str", "UTC"),
                                requestId),
     conferenceDataVersion |-> 1]

CreateInsertOk ==
    /\ pc = "insert"
    /\ \E requestId \in RequestIds :
        LET req == create_request(call, requestId)
        IN  \E created_event \in InsertResponses(req.body) :
                /\ calls' = Append(calls, Answered(req, created_event))
                /\ Return(create_result(created_event))
    /\ UNCHANGED <<tool, call, service, event>>
    /\ Sequential

CreateInsertFail ==
    /\ pc = "insert"
    /\ \E requestId \in RequestIds, cause \in BackendCauses :
        /\ calls' = Append(calls, Failed(create_request(call, requestId)))
        /\ Raise(cause)
    /\ UNCHANGED <<tool, call, service, event>>
    /\ Sequential

(* list-meetings *)
list_request(c) ==
    [op |-> "list",
     calendarId |-> DEFAULT_CALENDAR_ID,
     timeMin |-> IF Truthy(Param(c, "time_min_iso", None)) THEN c.time_min_iso ELSE rfc3339_now,
     timeMax |-> IF Truthy(Param(c, "time_max_iso", None)) THEN c.time_max_iso
                 ELSE rfc3339_in(ListWindowDays),
     singleEvents |-> TRUE,
     orderBy |-> "startTime",
     maxResults |-> Param(c, "max_results", DefaultMaxResults),
     showDeleted |-> FALSE]

\* results, from the response of list
list_result(events_result, only_with_meet_link) ==
    list_results(GetOr(events_result, "items", <<>>), 1, only_with_meet_link)

ListListOk ==
    /\ pc = "list"
    /\ LET req == list_request(call)
       IN  \E events_result \in ListResponses(req.maxResults) :
               /\ calls' = Append(calls, Answered(req, events_result))
               /\ Return(list_result(events_result, Param(call, "only_with_meet_link", TRUE)))
    /\ UNCHANGED <<tool, call, service, event>>
    /\ Sequential

ListListFail ==
    /\ pc = "list"
    /\ \E cause \in BackendCauses :
        /\ calls' = Append(calls, Failed(list_request(call)))
        /\ Raise(cause)
    /\ UNCHANGED <<tool, call, service, event>>
    /\ Sequential

(* get-meeting-details *)
get_request(c) == [op |-> "get", calendarId |-> DEFAULT_CALENDAR_ID, eventId |-> c.event_id]

GetGetOk ==
    /\ pc = "get"
    /\ \E ev \in FetchedEvents :
        /\ calls' = Append(calls, Answered(get_request(call), ev))
        /\ Return(ev)
    /\ UNCHANGED <<tool, call, service, event>>
    /\ Sequential

GetGetFail ==
    /\ pc = "get"
    /\ \E cause \in BackendCauses :
        /\ calls' = Append(calls, Failed(get_request(call)))
        /\ Raise(cause)
    /\ UNCHANGED <<tool, call, service, event>>
    /\ Sequential

(* update-meeting *)
update_request(c, ev) ==
    [op |-> "update",
     calendarId |-> DEFAULT_CALENDAR_ID,
     eventId |-> c.event_id,
     body |-> update_body(ev,
                          Param(c, "summary", None),
                          Param(c, "description", None),
                          Param(c, "start_iso", None),
                          Param(c, "end_iso", None),
                          Param(c, "timezone_str", "UTC")),
     conferenceDataVersion |-> 1]

UpdateGetOk ==
    /\ pc = "update_get"
    /\ \E ev \in FetchedEvents :
        /\ calls' = Append(calls, Answered(get_request(call), ev))
        /\ event' = ev
    /\ pc' = "update_update"
    /\ UNCHANGED <<tool, call, service, returned, errors>>
    /\ Sequential

\* variant: a failed get is swallowed and the tool goes on to update
UpdateGetFailSwallowed ==
    /\ pc = "update_get"
    /\ calls' = Append(calls, Failed(get_request(call)))
    /\ pc' = "update_update"
    /\ UNCHANGED <<tool, call, service, event, returned, errors>>
    /\ Sequential

UpdateGetFail ==
    /\ pc = "update_get"
    /\ \E cause \in BackendCauses :
        /\ calls' = Append(calls, Failed(get_request(call)))
        /\ Raise(cause)
    /\ UNCHANGED <<tool, call, service, event>>
    /\ Sequential

\* the merge into `event`, then update; the backend answers with the resource it stored
UpdateUpdateOk ==
    /\ pc = "update_update"
    /\ LET req == update_request(call, event)
       IN  /\ calls' = Append(calls, Answered(req, req.body))
           /\ event' = req.body
           /\ Return(req.body)
    /\ UNCHANGED <<tool, call, service>>
    /\ Sequential

UpdateUpdateFail ==
    /\ pc = "update_update"
    /\ LET req == update_request(call, event)
       IN  /\ calls' = Append(calls, Failed(req))
           /\ event' = req.body
    /\ \E cause \in BackendCauses : Raise(cause)
    /\ UNCHANGED <<tool, call, service>>
    /\ Sequential

(* delete-meeting *)
delete_request(c) == [op |-> "delete", calendarId |-> DEFAULT_CALENDAR_ID, eventId |-> c.event_id]

DeleteDeleteOk ==
    /\ pc = "delete"
    /\ calls' = Append(calls, Done(delete_request(call)))
    /\ Return([status |-> "deleted", eventId |-> call.event_id])
    /\ UNCHANGED <<tool, call, service, event>>
    /\ Sequential

DeleteDeleteFail ==
    /\ pc = "delete"
    /\ \E cause \in BackendCauses :
        /\ calls' = Append(calls, Failed(delete_request(call)))
        /\ Raise(cause)
    /\ UNCHANGED <<tool, call, service, event>>
    /\ Sequential

Next ==
    \/ Invoke
    \/ GetServiceOk
    \/ GetServiceFail
    \/ CreateInsertOk
    \/ CreateInsertFail
    \/ ListListOk
    \/ ListListFail
    \/ GetGetOk
    \/ GetGetFail
    \/ UpdateGetOk
    \/ UpdateGetFail
    \/ UpdateUpdateOk
    \/ UpdateUpdateFail
    \/ DeleteDeleteOk
    \/ DeleteDeleteFail

Spec == Init /\ [][Next]_vars

(********************** concurrent update-meeting invocations ***************)
\* Each invocation runs update_meeting against the one event the backend
\* holds.  get answers the stored event; update stores the body it is given
\* in place of the event (a full-resource write) and answers it.  Every log
\* entry carries `at`, the number of writes the backend had applied when it
\* served the request.
ConcCalls ==
    {[event_id |-> "evt-0", summary |-> "Retro"],
     [event_id |-> "evt-0", description |-> "Notes"],
     [event_id |-> "evt-0", start_iso |-> "T3"]}

Others == UNCHANGED <<pc, tool, call, service, calls, event, returned, errors>>
Step(i, fields) == inv' = [inv EXCEPT ![i] = Merge(inv[i], fields)]
ConcRaise(i, logged, cause) ==
    Step(i, [pc |-> "raised", calls |-> logged,
             errors |-> Append(inv[i].errors,
                               error_message("update-meeting", inv[i].call, cause))])

ConcInvoke(i) ==
    /\ inv[i].pc = "idle"
    /\ \E c \in ConcCalls : Step(i, [pc |-> "service", call |-> c])
    /\ UNCHANGED <<store, version>>
    /\ Others

ConcGetServiceOk(i) ==
    /\ inv[i].pc = "service"
    /\ Step(i, [pc |-> "update_get"])
    /\ UNCHANGED <<store, version>>
    /\ Others

ConcGetServiceFail(i) ==
    /\ inv[i].pc = "service"
    /\ \E cause \in AuthCauses : ConcRaise(i, inv[i].calls, cause)
    /\ UNCHANGED <<store, version>>
    /\ Others

ConcGetOk(i) ==
    /\ inv[i].pc = "update_get"
    /\ Step(i, [pc |-> "update_update",
                event |-> store,
                calls |-> Append(inv[i].calls,
                                 SetItem(Answered(get_request(inv[i].call), store), "at", version))])
    /\ UNCHANGED <<store, version>>
    /\ Others

ConcGetFail(i) ==
    /\ inv[i].pc = "update_get"
    /\ \E cause \in BackendCauses :
        ConcRaise(i, Append(inv[i].calls, SetItem(Failed(get_request(inv[i].call)), "at", version)),
                  cause)
    /\ UNCHANGED <<store, version>>
    /\ Others

\* variant: the body is merged from the event as the backend holds it at the
\* time of the write, not from the event fetched earlier
ConcUpdateOkFresh(i) ==
    /\ inv[i].pc = "update_update"
    /\ LET req == update_request(inv[i].call, store)
       IN  /\ store' = req.body
           /\ version' = version + 1
           /\ Step(i, [pc |-> "returned",
                       event |-> req.body,
                       calls |-> Append(inv[i].calls,
                                        SetItem(Answered(req, req.body), "at", version + 1)),
                       returned |-> <<req.body>>])
    /\ Others

ConcUpdateOk(i) ==
    /\ inv[i].pc = "update_update"
    /\ LET req == update_request(inv[i].call, inv[i].event)
       IN  /\ store' = req.body
           /\ version' = version + 1
           /\ Step(i, [pc |-> "returned",
                       event |-> req.body,
                       calls |-> Append(inv[i].calls,
                                        SetItem(Answered(req, req.body), "at", version + 1)),
                       returned |-> <<req.body>>])
    /\ Others

ConcUpdateFail(i) ==
    /\ inv[i].pc = "update_update"
    /\ LET req == update_request(inv[i].call, inv[i].event)
       IN  \E cause \in BackendCauses :
               Step(i, [pc |-> "raised",
                        event |-> req.body,
                        calls |-> Append(inv[i].calls, SetItem(Failed(req), "at", version)),
                        errors |-> Append(inv[i].errors,
                                          error_message("update-meeting", inv[i].call, cause))])
    /\ UNCHANGED <<store, version>>
    /\ Others

NextConc ==
    \E i \in InvIds :
        \/ ConcInvoke(i)
        \/ ConcGetServiceOk(i)
        \/ ConcGetServiceFail(i)
        \/ ConcGetOk(i)
        \/ ConcGetFail(i)
        \/ ConcUpdateOk(i)
        \/ ConcUpdateFail(i)

SpecConc == Init /\ [][NextConc]_vars

(********************** properties of update-meeting ************************)
\* update-meeting has issued its update; Fetched is what get answered and
\* Submitted the body passed to update
UpdateIssued == tool = "update-meeting" /\ Len(calls) = 2
Fetched == calls[1].response
Submitted == calls[2].body
Sides == {"start", "end"}
IsoArg(side) == IF side = "start" THEN "start_iso" ELSE "end_iso"
\* the caller supplied keyword k with a value other than None
Supplied(k) == k \in DOMAIN call /\ call[k] /= None

\* C1 (as claimed): an update-meeting call that supplies only event_id submits
\* a body equal to the fetched event.
C1_NoOpSubmitsFetched ==
    (UpdateIssued /\ DOMAIN call = {"event_id"}) => Submitted = Fetched

\* C2 (as claimed): when the caller supplies start_iso (end_iso) and omits
\* timezone_str, and that side of the fetched event has a timeZone, the
\* submitted body keeps that timeZone and only the side's dateTime changes.
C2_OmittedTimezoneKept ==
    (UpdateIssued /\ "timezone_str" \notin DOMAIN call) =>
        \A side \in Sides :
            (/\ Supplied(IsoArg(side))
             /\ side \in DOMAIN Fetched
             /\ "timeZone" \in DOMAIN Fetched[side]) =>
                /\ Submitted[side].timeZone = Fetched[side].timeZone
                /\ Submitted[side] = SetItem(Fetched[side], "dateTime", call[IsoArg(side)])

\* C3: update-meeting never deletes or clobbers an untargeted field: every key
\* of the fetched event is in the submitted body; every top-level key other
\* than summary, description, start and end has the same value; summary and
\* description change only when the argument is supplied; inside start and end
\* no sub-field other than dateTime and timeZone is changed or removed.
C3_UpdateFrame ==
    UpdateIssued =>
        /\ DOMAIN Fetched \subseteq DOMAIN Submitted
        /\ \A k \in DOMAIN Fetched \ {"summary", "description", "start", "end"} :
                Submitted[k] = Fetched[k]
        /\ \A k \in {"summary", "description"} :
                ~Supplied(k) =>
                    /\ k \in DOMAIN Submitted <=> k \in DOMAIN Fetched
                    /\ k \in DOMAIN Fetched => Submitted[k] = Fetched[k]
        /\ \A side \in Sides :
                side \in DOMAIN Fetched =>
                    /\ DOMAIN Fetched[side] \subseteq DOMAIN Submitted[side]
                    /\ \A k \in DOMAIN Fetched[side] \ {"dateTime", "timeZone"} :
                            Submitted[side][k] = Fetched[side][k]

\* C3's case: a call that changes summary and start of an event whose start
\* carries a sub-field besides dateTime and timeZone
C3_Witness ==
    /\ UpdateIssued
    /\ Supplied("summary") /\ Supplied("start_iso")
    /\ "start" \in DOMAIN Fetched /\ "date" \in DOMAIN Fetched["start"]
    /\ "description" \in DOMAIN Fetched /\ ~Supplied("description")
    /\ Submitted["start"].dateTime = call.start_iso
    /\ Submitted /= Fetched

\* C4: a call with a non-empty timezone_str and neither start_iso nor end_iso
\* sets timeZone on each side of the fetched event that lacks one (dateTime
\* unchanged), leaves a side that has one as fetched, and creates no side.
C4_TimezoneBackfill ==
    (/\ UpdateIssued
     /\ Supplied("timezone_str") /\ call.timezone_str /= ""
     /\ ~Supplied("start_iso") /\ ~Supplied("end_iso")) =>
        \A side \in Sides :
            /\ side \in DOMAIN Submitted <=> side \in DOMAIN Fetched
            /\ side \in DOMAIN Fetched =>
                IF "timeZone" \in DOMAIN Fetched[side]
                THEN Submitted[side] = Fetched[side]
                ELSE /\ DOMAIN Submitted[side] = DOMAIN Fetched[side] \cup {"timeZone"}
                     /\ Submitted[side].timeZone = call.timezone_str
                     /\ \A k \in DOMAIN Fetched[side] : Submitted[side][k] = Fetched[side][k]

\* C4's case: start lacks a timeZone and gets the supplied one, end has another
\* one and keeps it
C4_Witness ==
    /\ UpdateIssued
    /\ Supplied("timezone_str") /\ call.timezone_str = "Asia/Tokyo"
    /\ ~Supplied("start_iso") /\ ~Supplied("end_iso")
    /\ "start" \in DOMAIN Fetched /\ DOMAIN Fetched["start"] = {"dateTime"}
    /\ "end" \in DOMAIN Fetched /\ "timeZone" \in DOMAIN Fetched["end"]
    /\ Fetched["end"].timeZone = "Asia/Kolkata"
    /\ Submitted["start"] = [dateTime |-> "T1", timeZone |-> "Asia/Tokyo"]
    /\ Submitted["end"].timeZone = "Asia/Kolkata"

(********************** properties of list-meetings *************************)
ListReturned == tool = "list-meetings" /\ pc = "returned"
Items == IF "items" \in DOMAIN calls[1].response THEN calls[1].response.items ELSE <<>>
Flag == IF "only_with_meet_link" \in DOMAIN call THEN call.only_with_meet_link ELSE TRUE
Results == returned[1]

\* the entry points of an event resource, and the positions of its video entries
EntryPointsOf(ev) ==
    IF "conferenceData" \in DOMAIN ev /\ "entryPoints" \in DOMAIN ev.conferenceData
    THEN ev.conferenceData.entryPoints
    ELSE <<>>
VideoAt(ev) ==
    {i \in DOMAIN EntryPointsOf(ev) :
        /\ "entryPointType" \in DOMAIN EntryPointsOf(ev)[i]
        /\ EntryPointsOf(ev)[i].entryPointType = "video"}
FirstVideo(ev) == CHOOSE i \in VideoAt(ev) : \A j \in VideoAt(ev) : i <= j
\* the link as the specification resolves it: the uri of the first video entry
\* when there is one, else hangoutLink, else nothing
ResolvedLink(ev) ==
    IF VideoAt(ev) /= {}
    THEN (IF "uri" \in DOMAIN EntryPointsOf(ev)[FirstVideo(ev)]
          THEN EntryPointsOf(ev)[FirstVideo(ev)].uri
          ELSE None)
    ELSE IF "hangoutLink" \in DOMAIN ev THEN ev.hangoutLink
    ELSE None

\* the compact summary of an event, with the link as the specification resolves it
Projected(ev) ==
    [eventId |-> IF "id" \in DOMAIN ev THEN ev.id ELSE None,
     summary |-> IF "summary" \in DOMAIN ev THEN ev.summary ELSE None,
     start |-> IF "start" \in DOMAIN ev THEN ev["start"] ELSE NoneDict,
     end |-> IF "end" \in DOMAIN ev THEN ev["end"] ELSE NoneDict,
     meetLink |-> ResolvedLink(ev),
     htmlLink |-> IF "htmlLink" \in DOMAIN ev THEN ev.htmlLink ELSE None]

\* C5: in list-meetings the link of an event is the uri of the first video entry
\* of conferenceData.entryPoints whenever there is one (whatever comes later and
\* whatever hangoutLink holds), else hangoutLink if present, else absent.
C5_LinkPriority ==
    ListReturned =>
        /\ \A j \in DOMAIN Results :
                \E i \in DOMAIN Items :
                    /\ Results[j].eventId = (IF "id" \in DOMAIN Items[i] THEN Items[i].id ELSE None)
                    /\ Results[j].meetLink = ResolvedLink(Items[i])
        /\ ~Flag =>
                /\ Len(Results) = Len(Items)
                /\ \A i \in DOMAIN Items : Results[i].meetLink = ResolvedLink(Items[i])

\* C5's case: two video entries with different uris and a hangoutLink; the
\* first entry's uri is the link
C5_Witness ==
    /\ ListReturned
    /\ Len(Items) = 1 /\ Len(Results) = 1
    /\ EntryPointsOf(Items[1]) = <<VideoB, VideoA>>
    /\ "hangoutLink" \in DOMAIN Items[1] /\ Items[1].hangoutLink = LegacyLink
    /\ Results[1].meetLink = VideoB.uri

\* the positions list-meetings keeps, when HasLink says which events have a link
KeptAt(HasLink(_)) == {i \in DOMAIN Items : ~Flag \/ HasLink(Items[i])}
Rank(K, i) == Cardinality({j \in K : j <= i})
\* the result is the projections of the kept events, in input order
FilteredBy(HasLink(_)) ==
    /\ Len(Results) = Cardinality(KeptAt(HasLink))
    /\ \A i \in KeptAt(HasLink) : Results[Rank(KeptAt(HasLink), i)] = Projected(Items[i])

LinkResolved(ev) == ResolvedLink(ev) /= None
LinkNonEmpty(ev) == ResolvedLink(ev) /= None /\ ResolvedLink(ev) /= ""

\* C6 (as claimed): the result is the order-preserving sequence of projections
\* of exactly the events for which a link was resolved (with the flag), or of
\* every event (without it).
C6_FilterResolved == ListReturned => FilteredBy(LinkResolved)

\* C6 (amended): the result is the order-preserving sequence of projections of
\* exactly the events whose resolved link is present and not the empty string
\* (with the flag), or of every event, meetLink being the resolved link
\* (without it).
C6_FilterNonEmpty == ListReturned => FilteredBy(LinkNonEmpty)

\* C6's case: four events, the second without a link and the fourth with an
\* empty one; the first and the third are returned, in that order
C6_Witness ==
    /\ ListReturned /\ Flag
    /\ Len(Items) = 4
    /\ ResolvedLink(Items[1]) = VideoA.uri
    /\ ResolvedLink(Items[2]) = None
    /\ ResolvedLink(Items[3]) = LegacyLink
    /\ ResolvedLink(Items[4]) = ""
    /\ Len(Results) = 2
    /\ Results[1].eventId = "evt-1" /\ Results[2].eventId = "evt-3"

(********************** properties of create-meeting ************************)
CreateIssued == tool = "create-meeting" /\ Len(calls) = 1
Inserted == calls[1].body
CreateTimezone == IF "timezone_str" \in DOMAIN call THEN call.timezone_str ELSE "UTC"
DescriptionGiven ==
    "description" \in DOMAIN call /\ call.description /= None /\ call.description /= ""
AttendeesGiven == "attendees" \in DOMAIN call /\ Len(call.attendees) > 0

\* C8: the body passed to insert has summary verbatim, start and end as
\* {dateTime, timeZone} with the one supplied timezone, a description iff a
\* non-empty one was supplied, attendees iff a non-empty list was supplied (one
\* {email} per address, in order), always conferenceData.createRequest with a
\* request token and the fixed solution selector, and never an id.
C8_CreatePayload ==
    CreateIssued =>
        /\ Inserted.summary = call.summary
        /\ Inserted["start"] = [dateTime |-> call.start_iso, timeZone |-> CreateTimezone]
        /\ Inserted["end"] = [dateTime |-> call.end_iso, timeZone |-> CreateTimezone]
        /\ "description" \in DOMAIN Inserted <=> DescriptionGiven
        /\ DescriptionGiven => Inserted.description = call.description
        /\ "attendees" \in DOMAIN Inserted <=> AttendeesGiven
        /\ AttendeesGiven =>
                /\ Len(Inserted.attendees) = Len(call.attendees)
                /\ \A i \in DOMAIN call.attendees :
                        Inserted.attendees[i] = [email |-> call.attendees[i]]
        /\ "conferenceData" \in DOMAIN Inserted
        /\ DOMAIN Inserted.conferenceData = {"createRequest"}
        /\ Inserted.conferenceData.createRequest.requestId \in RequestIds
        /\ Inserted.conferenceData.createRequest.conferenceSolutionKey = [type |-> "hangoutsMeet"]
        /\ "id" \notin DOMAIN Inserted
        /\ DOMAIN Inserted \subseteq
                {"summary", "start", "end", "description", "attendees", "conferenceData"}

\* C8's case: a call with a description, two attendees and a timezone, whose
\* body insert accepted
C8_Witness ==
    /\ CreateIssued
    /\ DescriptionGiven /\ AttendeesGiven
    /\ call.attendees = <<"b@x.org", "a@x.org">>
    /\ Inserted.attendees = <<[email |-> "b@x.org"], [email |-> "a@x.org"]>>
    /\ Inserted.description = "Agenda"
    /\ Inserted["start"].timeZone = "Asia/Kolkata"
    /\ pc = "returned"

\* C10 (as claimed): the meetLink create-meeting returns is the link that
\* list-meetings' extractor resolves for the resource insert answered.
C10_CreateLinkAsList ==
    (tool = "create-meeting" /\ pc = "returned") =>
        returned[1].meetLink = extract_meet_link(calls[1].response)

(********************** the error boundary **********************************)
OpsIssued == [i \in DOMAIN calls |-> calls[i].op]
SomethingFailed == service = "failed" \/ \E i \in DOMAIN calls : ~calls[i].ok
IsPrefix(a, b) == Len(a) <= Len(b) /\ \A i \in DOMAIN a : a[i] = b[i]

\* C7: a failure of the credential provider or of a backend call ends the
\* invocation with exactly one tool-level error and no result; no backend
\* operation is issued twice; create, list, get and delete issue at most one
\* backend call; update-meeting issues get before update and no update after a
\* failed get; delete-meeting returns {status: "deleted", eventId} only after
\* the backend delete succeeded.
C7_FailFast ==
    /\ SomethingFailed => (pc = "raised" /\ Len(errors) = 1 /\ returned = <<>>)
    /\ pc = "raised" <=> Len(errors) = 1
    /\ Len(errors) <= 1 /\ Len(returned) <= 1
    /\ pc = "returned" <=> Len(returned) = 1
    /\ pc = "returned" => (errors = <<>> /\ service = "ok" /\ \A i \in DOMAIN calls : calls[i].ok)
    /\ service /= "ok" => calls = <<>>
    /\ \A i \in DOMAIN calls : \A j \in DOMAIN calls : i /= j => calls[i].op /= calls[j].op
    /\ \A i \in DOMAIN calls : i < Len(calls) => calls[i].ok
    /\ tool = "create-meeting" => IsPrefix(OpsIssued, <<"insert">>)
    /\ tool = "list-meetings" => IsPrefix(OpsIssued, <<"list">>)
    /\ tool = "get-meeting-details" => IsPrefix(OpsIssued, <<"get">>)
    /\ tool = "delete-meeting" => IsPrefix(OpsIssued, <<"delete">>)
    /\ tool = "update-meeting" => IsPrefix(OpsIssued, <<"get", "update">>)
    /\ (tool = "update-meeting" /\ pc = "returned") => Len(calls) = 2
    /\ (tool = "delete-meeting" /\ pc = "returned") =>
            /\ returned[1] = [status |-> "deleted", eventId |-> call.event_id]
            /\ Len(calls) = 1 /\ calls[1].op = "delete" /\ calls[1].ok
            /\ calls[1].eventId = call.event_id

\* C7's case: update-meeting whose get succeeded and whose update failed ends
\* with one error and no result
C7_Witness ==
    /\ tool = "update-meeting"
    /\ Len(calls) = 2 /\ calls[1].ok /\ ~calls[2].ok
    /\ pc = "raised" /\ Len(errors) = 1 /\ returned = <<>>
    /\ errors[1] = <<"Failed to update meeting ", "evt-0", ": ", "timed out">>

(********************** concurrent updates **********************************)
\* the one field a concurrent call targets
TargetOf(c) ==
    IF "summary" \in DOMAIN c THEN "summary"
    ELSE IF "description" \in DOMAIN c THEN "description"
    ELSE "start"
ConcReturned(i) == inv[i].pc = "returned"
ReadAt(i) == inv[i].calls[1].at
WroteAt(i) == inv[i].calls[2].at
\* j's write was applied after i's get and before i's update
WroteBetween(j, i) == ReadAt(i) < WroteAt(j) /\ WroteAt(j) < WroteAt(i)

\* C9: lost updates happen and go undetected: when an invocation j's write
\* falls between the get and the update of an invocation i that targets
\* another field, both return success with no error, i's write puts back the
\* value it fetched for j's field, and once i's write is the last one the
\* backend event holds that stale value.
C9_LostUpdate ==
    \A i \in InvIds : \A j \in InvIds \ {i} :
        (/\ ConcReturned(i) /\ ConcReturned(j)
         /\ TargetOf(inv[i].call) /= TargetOf(inv[j].call)
         /\ WroteBetween(j, i)) =>
            /\ inv[i].errors = <<>> /\ inv[j].errors = <<>>
            /\ Len(inv[i].returned) = 1 /\ Len(inv[j].returned) = 1
            /\ inv[i].calls[2].body[TargetOf(inv[j].call)]
                   = inv[i].calls[1].response[TargetOf(inv[j].call)]
            /\ WroteAt(i) = version =>
                   store[TargetOf(inv[j].call)]
                       = inv[i].calls[1].response[TargetOf(inv[j].call)]

\* C9's case: invocation 1 sets the summary and invocation 2 the description;
\* both got the event, 2 wrote, then 1 wrote; both returned success and the
\* backend event has the new summary and the old description
C9_Witness ==
    /\ ConcReturned(1) /\ ConcReturned(2)
    /\ inv[1].call = [event_id |-> "evt-0", summary |-> "Retro"]
    /\ inv[2].call = [event_id |-> "evt-0", description |-> "Notes"]
    /\ ReadAt(1) = 0 /\ ReadAt(2) = 0 /\ WroteAt(2) = 1 /\ WroteAt(1) = 2
    /\ inv[1].errors = <<>> /\ inv[2].errors = <<>>
    /\ inv[2].returned[1].description = "Notes"
    /\ store.summary = "Retro"
    /\ store.description = "Agenda"

====
